---- MODULE Spec2Model ----
(***************************************************************************)
(* YouTubeTools (src/streamlit_app.py): the video identifier resolver, the *)
(* three operations built on it (oEmbed metadata, caption text, caption    *)
(* timestamps) and the Streamlit buttons that call them.                   *)
(*                                                                         *)
(* Strings are sequences of tokens.  A token is either one character that  *)
(* the code splits or tests on (":", "/", "?", "#", "&", "=" in a url, ","  *)
(* and " " in the languages text) or an atom, a run of characters holding  *)
(* none of them.  Slicing, splitting, prefix tests and joins are then the  *)
(* sequence operations below.  Times are in tenths of a second.            *)
(***************************************************************************)
EXTENDS Integers, Sequences, FiniteSets, TLC

VARIABLES
    pc,              \* position of the running operation
    caller,          \* "ui" (a button of the page) or "api" (a direct call)
    op,              \* the YouTubeTools method running
    url,             \* the url argument
    url_parts,       \* history: the components the url text was written from
    langs_input,     \* the text of the languages field of the page
    languages,       \* the languages argument
    video_id,        \* local video_id
    provider_calls,  \* the network calls of the running operation, with answers
    captions,        \* local captions (get_video_timestamps)
    idx,             \* number of caption lines the for loop has consumed
    timestamps,      \* local timestamps (get_video_timestamps)
    result,          \* how the operation ended: a return value or an exception
    ui               \* what the page shows

vars == <<pc, caller, op, url, url_parts, langs_input, languages, video_id,
          provider_calls, captions, idx, timestamps, result, ui>>

---------------------------------------------------------------------------
(* Bounds of the model *)

MaxSegs == 3
MaxParams == 2
MaxLangTokens == 2
MaxLines == 2
MaxBodyKeys == 3

---------------------------------------------------------------------------
(* Python values *)

None == [tag |-> "None", val |-> <<>>]
Str(s) == [tag |-> "str", val |-> s]
List(l) == [tag |-> "list", val |-> l]

\* bool(x) for None, a str and a list
Truthy(x) == x.tag # "None" /\ x.val # <<>>

Exc(type, msg) == [type |-> type, msg |-> msg]

Returned(v) == [kind |-> "return", type |-> "", value |-> v]
Raised(e) == [kind |-> "raise", type |-> e.type, value |-> e.msg]
Pending == [kind |-> "pending", type |-> "", value |-> <<>>]

---------------------------------------------------------------------------
(* Sequence helpers: str.find, str.split, str.startswith, str.join *)

SeqsUpTo(S, n) == UNION {[1..k -> S] : k \in 0..n}

\* s.find(d) + 1: the position of the first token d, 0 when there is none
Find(s, D) ==
    IF \E i \in 1..Len(s) : s[i] \in D
    THEN CHOOSE i \in 1..Len(s) : s[i] \in D /\ \A j \in 1..(i - 1) : s[j] \notin D
    ELSE 0

RECURSIVE Split(_, _)
Split(s, d) ==
    LET i == Find(s, {d})
    IN  IF i = 0 THEN <<s>>
        ELSE <<SubSeq(s, 1, i - 1)>> \o Split(SubSeq(s, i + 1, Len(s)), d)

StartsWith(s, p) == Len(s) >= Len(p) /\ SubSeq(s, 1, Len(p)) = p

RECURSIVE Join(_, _)
Join(parts, sep) ==
    IF parts = <<>> THEN <<>>
    ELSE IF Len(parts) = 1 THEN parts[1]
    ELSE parts[1] \o sep \o Join(Tail(parts), sep)

---------------------------------------------------------------------------
(* urllib.parse as get_youtube_video_id uses it *)

Delims == {":", "/", "?", "#", "&", "="}

\* characters outside urlsplit's scheme_chars end the scan for a scheme
IsSchemeAtom(t) == t \notin Delims \cup {"[", "]", " ", ","}

\* str.lower on the atoms of the model
Lower(t) == IF t = "YouTu.Be" THEN "youtu.be" ELSE t

\* unquote(s.replace("+", " ")) on the atoms of the model
Unquote(t) == IF t = "a+b" THEN "a b" ELSE t

\* s[:i] and s[i+1:] around position i, s itself and "" when i is 0
Before(s, i) == IF i = 0 THEN s ELSE SubSeq(s, 1, i - 1)
After(s, i) == IF i = 0 THEN <<>> ELSE SubSeq(s, i + 1, Len(s))
From(s, i) == IF i = 0 THEN <<>> ELSE SubSeq(s, i, Len(s))

Has(s, t) == \E j \in 1..Len(s) : s[j] = t

\* urlsplit, last step: the query is what follows the first "?"
SplitQuery(scheme, hasNetloc, netloc, r, fragment) ==
    [error |-> IF hasNetloc /\ (Has(netloc, "[") # Has(netloc, "]"))
               THEN <<"Invalid IPv6 URL">> ELSE <<>>,
     scheme |-> scheme, netloc |-> netloc,
     path |-> Before(r, Find(r, {"?"})), query |-> After(r, Find(r, {"?"})),
     fragment |-> fragment]

\* urlsplit: the fragment is what follows the first "#"
SplitFragment(scheme, hasNetloc, netloc, r) ==
    SplitQuery(scheme, hasNetloc, netloc,
               Before(r, Find(r, {"#"})), After(r, Find(r, {"#"})))

\* _splitnetloc: after "//" the netloc runs to the first of "/", "?", "#"
SplitNetloc(scheme, a) ==
    SplitFragment(scheme, TRUE, Before(a, Find(a, {"/", "?", "#"})),
                  From(a, Find(a, {"/", "?", "#"})))

\* urlsplit: the netloc is there when the rest begins with "//"
AfterScheme(scheme, r) ==
    IF StartsWith(r, <<"/", "/">>)
    THEN SplitNetloc(scheme, SubSeq(r, 3, Len(r)))
    ELSE SplitFragment(scheme, FALSE, <<>>, r)

\* urlsplit: url[:c] is the scheme when it is not empty and all of it is
\* scheme characters
SplitScheme(u, c) ==
    IF c > 1 /\ \A j \in 1..(c - 1) : IsSchemeAtom(u[j])
    THEN AfterScheme([j \in 1..(c - 1) |-> Lower(u[j])], SubSeq(u, c + 1, Len(u)))
    ELSE AfterScheme(<<>>, u)

\* urlparse(url): [scheme, netloc, path, query, fragment], or a ValueError
urlparse(u) == SplitScheme(u, Find(u, {":"}))

\* ParseResult.hostname: netloc without its port, lower-cased, None when empty
HostOf(host) ==
    IF host = <<>> THEN None ELSE Str([j \in 1..Len(host) |-> Lower(host[j])])

hostname(parsed_url) ==
    HostOf(Before(parsed_url.netloc, Find(parsed_url.netloc, {":"})))

\* one "name=value" piece of a query: <<name, value>>, or <<>> when parse_qs
\* skips it (no "=", or a blank value: keep_blank_values is False)
PairOf(name, value) ==
    IF value = <<>> THEN <<>>
    ELSE <<[j \in 1..Len(name) |-> Unquote(name[j])],
           [j \in 1..Len(value) |-> Unquote(value[j])]>>

ParsePair(piece) ==
    IF Find(piece, {"="}) = 0 THEN <<>>
    ELSE PairOf(Before(piece, Find(piece, {"="})), After(piece, Find(piece, {"="})))

ParsePairs(pieces) == [i \in 1..Len(pieces) |-> ParsePair(pieces[i])]

Least(S) == CHOOSE i \in S : \A j \in S : i <= j

FirstValue(pairs, hits) == IF hits = {} THEN None ELSE Str(pairs[Least(hits)][2])

Named(pairs, name) ==
    {i \in 1..Len(pairs) : pairs[i] # <<>> /\ pairs[i][1] = name}

\* parse_qs(query): the kept pairs in order
parse_qs(query) == ParsePairs(Split(query, "&"))

\* query_params.get(name, [None])[0]: the first kept value of name
QueryGetFirst(query_params, name) ==
    FirstValue(query_params, Named(query_params, name))

---------------------------------------------------------------------------
(* YouTubeTools.get_youtube_video_id *)

\* parsed_url.path[1:]
PathAfterFirst(path) == IF path = <<>> THEN <<>> ELSE Tail(path)

\* slip: parsed_url.path.split("/")[1]
PathSegment1(path) == Split(path, "/")[2]

\* parsed_url.path.split("/")[2]
PathSegment2(path) == Split(path, "/")[3]

HostIn(host, names) == host \in {Str(<<n>>) : n \in names}

\* lines 24-34
IdOf(parsed_url, host) ==
    IF HostIn(host, {"youtu.be"})
    THEN Str(PathAfterFirst(parsed_url.path))
    ELSE IF HostIn(host, {"www.youtube.com", "youtube.com"})
    THEN IF parsed_url.path = <<"/", "watch">>
         THEN QueryGetFirst(parse_qs(parsed_url.query), <<"v">>)
         ELSE IF StartsWith(parsed_url.path, <<"/", "embed", "/">>)
         THEN Str(PathSegment2(parsed_url.path))
         ELSE IF StartsWith(parsed_url.path, <<"/", "v", "/">>)
         THEN Str(PathSegment2(parsed_url.path))
         ELSE None
    ELSE None

\* lines 21-22: a ValueError of urlparse leaves the function
Parsed(parsed_url) ==
    IF parsed_url.error # <<>>
    THEN [tag |-> "raise", val |-> parsed_url.error]
    ELSE IdOf(parsed_url, hostname(parsed_url))

\* Str(id) | None | a raised ValueError
get_youtube_video_id(u) == Parsed(urlparse(u))

---------------------------------------------------------------------------
(* The url texts of the model, written from their components *)

Schemes == {"https", ""}
Hosts == {"youtu.be", "www.youtube.com", "youtube.com", "m.youtube.com",
          "YouTu.Be", "["}
SegAtoms == {"watch", "embed", "v", "abc123", ""}
Params == {<<"v", "xyz789">>, <<"v", "abc123">>, <<"v", "a+b">>, <<"v", "">>,
           <<"t", "5">>}
QueryPaths == {<<"watch">>, <<"watch", "">>, <<"embed", "abc123">>, <<"abc123">>}

NoParts == [scheme |-> "", host |-> "", segs |-> <<>>, params |-> <<>>]

\* every host and scheme with every path, and with every query on a few paths
UrlParts ==
    [scheme : Schemes, host : Hosts, segs : SeqsUpTo(SegAtoms, MaxSegs),
     params : {<<>>}]
    \cup
    [scheme : Schemes, host : Hosts, segs : QueryPaths,
     params : SeqsUpTo(Params, MaxParams)]

PathText(segs) ==
    Join([i \in 1..Len(segs) |->
             <<"/">> \o (IF segs[i] = "" THEN <<>> ELSE <<segs[i]>>)], <<>>)

QueryText(params) ==
    Join([i \in 1..Len(params) |->
             <<params[i][1], "=">>
             \o (IF params[i][2] = "" THEN <<>> ELSE <<params[i][2]>>)], <<"&">>)

UrlText(p) ==
    (IF p.scheme = "" THEN <<>> ELSE <<p.scheme, ":", "/", "/">>)
    \o (IF p.host = "" THEN <<>> ELSE <<p.host>>)
    \o PathText(p.segs)
    \o (IF p.params = <<>> THEN <<>> ELSE <<"?">> \o QueryText(p.params))

---------------------------------------------------------------------------
(* The resolver alone, applied to every url text of the model *)

ResolveInit ==
    /\ pc = "resolve_in"
    /\ url_parts \in UrlParts
    /\ url = UrlText(url_parts)
    /\ caller = "api"
    /\ op = "get_youtube_video_id"
    /\ langs_input = <<>>
    /\ languages = None
    /\ video_id = None
    /\ provider_calls = <<>>
    /\ captions = <<>>
    /\ idx = 0
    /\ timestamps = <<>>
    /\ result = Pending
    /\ ui = [kind |-> "none", content |-> <<>>]

ResolveApply ==
    /\ pc = "resolve_in"
    /\ video_id' = get_youtube_video_id(url)
    /\ pc' = "resolve_out"
    /\ UNCHANGED <<caller, op, url, url_parts, langs_input, languages,
                   provider_calls, captions, idx, timestamps, result, ui>>

ResolveNext == ResolveApply

ResolveSpec == ResolveInit /\ [][ResolveNext]_vars

---------------------------------------------------------------------------
(* The external providers: what a call may answer *)

Whitelist == {"title", "author_name", "author_url", "type", "height", "width",
              "version", "provider_name", "provider_url", "thumbnail_url"}

\* keys an oEmbed answer of the model may hold: whitelisted ones and others
KeyOrder == <<"title", "html", "thumbnail_url", "thumbnail_height", "width",
              "author_name", "cache_age", "type">>
KeyPool == {KeyOrder[i] : i \in 1..MaxBodyKeys}

ProviderValue(k) == Str(<<"value of", k>>)

\* the body of a successful GET: bytes that do not decode, text that is no
\* JSON, JSON that is no object, or a JSON object
Bodies ==
    {[json |-> j, fields |-> <<>>] : j \in {"undecodable", "invalid", "array", "null"}}
    \cup {[json |-> "object", fields |-> [k \in S |-> ProviderValue(k)]] :
             S \in SUBSET KeyPool}

NoBody == [json |-> "none", fields |-> <<>>]

OEmbedResponses ==
    {[kind |-> "error", cause |-> <<"HTTP Error 404: Not Found">>,
      body |-> NoBody, lines |-> <<>>]}
    \cup {[kind |-> "ok", cause |-> <<>>, body |-> b, lines |-> <<>>] : b \in Bodies}

Line(start, text) ==
    [has_start |-> TRUE, start |-> start, has_text |-> TRUE, text |-> text]

\* caption lines, start times in tenths of a second (75.8, 3605.9, -0.5):
\* well formed, or lacking the "start" or the "text" key
Lines ==
    {Line(758, <<"hi">>), Line(36059, <<"there">>), Line(-5, <<"there">>),
     [has_start |-> FALSE, start |-> 0, has_text |-> TRUE, text |-> <<"hi">>],
     [has_start |-> TRUE, start |-> 20, has_text |-> FALSE, text |-> <<>>]}

TranscriptResponses ==
    {[kind |-> "error", cause |-> <<"Could not retrieve a transcript">>,
      body |-> NoBody, lines |-> <<>>]}
    \cup {[kind |-> "ok", cause |-> <<>>, body |-> NoBody, lines |-> l] :
             l \in SeqsUpTo(Lines, MaxLines)}

Absent == [tag |-> "absent", val |-> <<>>]
\* one network call: what was asked and what the provider answered
Call(api, id, langs, resp) ==
    [api |-> api, video_id |-> id, languages |-> langs, answer |-> resp]

---------------------------------------------------------------------------
(* Steps shared by the three operations *)

\* slip: the check for a missing url left out
NeverNotUrl(u) == FALSE

\* "if not url"
NotUrl(u) == u = <<>>

\* slip: "if video_id is None"
VideoIdIsNone(v) == v.tag = "None"

\* "if not video_id"
NotVideoId(v) == ~Truthy(v)

\* the try block of lines 42-45 with r = get_youtube_video_id(url): the
\* exception it raises, if any
TryWith(r) ==
    IF r.tag = "raise"
    THEN [raised |-> TRUE, exc |-> Exc("ValueError", r.val), video_id |-> None]
    ELSE IF NotVideoId(r)
    THEN [raised |-> TRUE, exc |-> Exc("ValueError", <<"Invalid YouTube URL">>),
          video_id |-> r]
    ELSE [raised |-> FALSE, exc |-> Exc("", <<>>), video_id |-> r]

TryResolve(u) == TryWith(get_youtube_video_id(u))

\* "except Exception: raise ValueError(...)" of lines 46-47
ExceptResolve(e) == Exc("ValueError", <<"Error getting video ID from URL">>)

\* "except Exception as e: raise Exception(f"<prefix>{str(e)}")"
Prefix(o) ==
    CASE o = "get_video_data" -> <<"Error getting video data: ">>
      [] o = "get_video_captions" -> <<"Error getting captions for video: ">>
      [] o = "get_video_timestamps" -> <<"Error generating timestamps: ">>

ExceptProvider(o, e) == Exc("Exception", Prefix(o) \o e.msg)

KeyError(k) == Exc("KeyError", <<"'", k, "'">>)

---------------------------------------------------------------------------
(* get_video_data *)

DictGet(d, k) == IF k \in DOMAIN d THEN d[k] ELSE None

\* slip: the provider's dict returned as it came
WholeDict(video_data) == [k \in DOMAIN video_data |-> video_data[k]]

clean_data(video_data) == [k \in Whitelist |-> DictGet(video_data, k)]

\* response.read().decode(), json.loads and the .get lookups
BodyOutcome(body) ==
    CASE body.json = "undecodable" ->
            Raised(ExceptProvider("get_video_data",
                Exc("UnicodeDecodeError", <<"'utf-8' codec can't decode byte">>)))
      [] body.json = "invalid" ->
            Raised(ExceptProvider("get_video_data",
                Exc("JSONDecodeError", <<"Expecting value: line 1 column 1 (char 0)">>)))
      [] body.json = "array" ->
            Raised(ExceptProvider("get_video_data",
                Exc("AttributeError", <<"'list' object has no attribute 'get'">>)))
      [] body.json = "null" ->
            Raised(ExceptProvider("get_video_data",
                Exc("AttributeError", <<"'NoneType' object has no attribute 'get'">>)))
      [] body.json = "object" -> Returned(clean_data(body.fields))

DataOutcome(resp) ==
    IF resp.kind = "error"
    THEN Raised(ExceptProvider("get_video_data", Exc("HTTPError", resp.cause)))
    ELSE BodyOutcome(resp.body)

---------------------------------------------------------------------------
(* get_video_captions *)

\* the languages keyword of the get_transcript call of lines 88-91
CaptionsLanguages(l) == IF Truthy(l) THEN l ELSE Absent

NoCaptions == <<"No captions found for video">>

\* slip: "".join(...)
JoinTextsNoSpace(lines) == Join([i \in 1..Len(lines) |-> lines[i].text], <<>>)

\* " ".join(line["text"] for line in captions)
JoinTexts(lines) == Join([i \in 1..Len(lines) |-> lines[i].text], <<" ">>)

CaptionsOutcome(resp) ==
    IF resp.kind = "error"
    THEN Raised(ExceptProvider("get_video_captions", Exc("Exception", resp.cause)))
    ELSE IF resp.lines = <<>> THEN Returned(Str(NoCaptions))
    ELSE IF \E i \in 1..Len(resp.lines) : ~resp.lines[i].has_text
    THEN Raised(ExceptProvider("get_video_captions", KeyError("text")))
    ELSE Returned(Str(JoinTexts(resp.lines)))

---------------------------------------------------------------------------
(* get_video_timestamps *)

\* slip: languages if languages is not None else ["en"]
TimestampsLanguagesNotNone(l) == IF l.tag = "list" THEN l ELSE List(<<<<"en">>>>)

\* languages or ["en"]
TimestampsLanguages(l) == IF Truthy(l) THEN l ELSE List(<<<<"en">>>>)

\* int(x) of a float given in tenths: truncation towards zero
IntTrunc(x) == IF x >= 0 THEN x \div 10 ELSE -((-x) \div 10)

DigitChars == <<"0", "1", "2", "3", "4", "5", "6", "7", "8", "9">>

RECURSIVE NatStr(_)
NatStr(n) ==
    IF n < 10 THEN <<DigitChars[n + 1]>>
    ELSE NatStr(n \div 10) \o <<DigitChars[(n % 10) + 1]>>

\* format(n, "d")
IntStr(n) == IF n < 0 THEN <<"-">> \o NatStr(-n) ELSE NatStr(n)

\* format(n, "02d")
\* slip: {seconds} without the 02d
NoPad(s) == s

Pad2(s) == IF Len(s) < 2 THEN <<"0">> \o s ELSE s
Format02d(n) == Pad2(IntStr(n))

\* f"{minutes}:{seconds:02d} - {line['text']}"
Render(minutes, seconds, text) ==
    IntStr(minutes) \o <<":">> \o Format02d(seconds) \o <<" ", "-", " ">> \o text

\* minutes, seconds = divmod(start, 60)
DivMod60(start, text) == Render(start \div 60, start % 60, text)

\* lines 116-118: the string appended for one line
FormatTimestamp(line) == DivMod60(IntTrunc(line.start), line.text)

---------------------------------------------------------------------------
(* The page: the url and languages fields, and the three buttons *)

Ops == {"get_video_data", "get_video_captions", "get_video_timestamps"}

LangTokens == {",", " ", "en", "fa"}

RECURSIVE Strip(_)
Strip(s) ==
    IF s # <<>> /\ Head(s) = " " THEN Strip(Tail(s))
    ELSE IF s # <<>> /\ s[Len(s)] = " " THEN Strip(SubSeq(s, 1, Len(s) - 1))
    ELSE s

NonEmpty(s) == s # <<>>

\* [lang.strip() for lang in langs_input.split(",") if lang.strip()]
\*     if langs_input else None
StripAll(pieces) == [i \in 1..Len(pieces) |-> Strip(pieces[i])]

ParseLanguages(text) ==
    IF text = <<>> THEN None
    ELSE List(SelectSeq(StripAll(Split(text, ",")), NonEmpty))

\* the urls the operations are run on: none, two that resolve, one of a
\* foreign host, one that resolves to the empty string, one urlparse rejects
OpParts ==
    {NoParts,
     [scheme |-> "https", host |-> "youtu.be", segs |-> <<"abc123">>, params |-> <<>>],
     [scheme |-> "https", host |-> "www.youtube.com", segs |-> <<"watch">>,
      params |-> <<<<"v", "xyz789">>, <<"t", "5">>>>],
     [scheme |-> "https", host |-> "m.youtube.com", segs |-> <<"watch">>,
      params |-> <<<<"v", "xyz789">>>>],
     [scheme |-> "https", host |-> "youtu.be", segs |-> <<>>, params |-> <<>>],
     [scheme |-> "https", host |-> "[", segs |-> <<>>, params |-> <<>>]}

\* the languages a direct caller passes
ApiLanguages == {None, List(<<>>), List(<<<<"fa">>, <<"en">>>>)}

NothingShown == [kind |-> "none", content |-> <<>>]
EnterUrlMessage == <<"(please enter the video URL)">>

Init ==
    /\ pc = "idle"
    /\ caller = "none"
    /\ op = "none"
    /\ url = <<>>
    /\ url_parts = NoParts
    /\ langs_input = <<>>
    /\ languages = None
    /\ video_id = None
    /\ provider_calls = <<>>
    /\ captions = <<>>
    /\ idx = 0
    /\ timestamps = <<>>
    /\ result = Pending
    /\ ui = NothingShown

\* a button is pressed with the two fields filled in
ButtonClick(o, p, text) ==
    /\ pc = "idle"
    /\ caller' = "ui"
    /\ op' = o
    /\ url_parts' = p
    /\ url' = UrlText(p)
    /\ langs_input' = text
    /\ languages' = ParseLanguages(text)
    /\ IF NotUrl(UrlText(p))
       THEN /\ ui' = [kind |-> "error", content |-> EnterUrlMessage]
            /\ pc' = "shown"
       ELSE /\ ui' = ui
            /\ pc' = "check_url"
    /\ UNCHANGED <<video_id, provider_calls, captions, idx, timestamps, result>>

\* a method of YouTubeTools is called directly
ApiCall(o, p, l) ==
    /\ pc = "idle"
    /\ caller' = "api"
    /\ op' = o
    /\ url_parts' = p
    /\ url' = UrlText(p)
    /\ languages' = l
    /\ pc' = "check_url"
    /\ UNCHANGED <<langs_input, video_id, provider_calls, captions, idx,
                   timestamps, result, ui>>

\* lines 39-40, 77-78, 102-103
CheckUrl ==
    /\ pc = "check_url"
    /\ IF NotUrl(url)
       THEN /\ result' = Raised(Exc("ValueError", <<"No URL provided">>))
            /\ pc' = "done"
       ELSE /\ result' = result
            /\ pc' = "resolve"
    /\ UNCHANGED <<caller, op, url, url_parts, langs_input, languages, video_id,
                   provider_calls, captions, idx, timestamps, ui>>

\* lines 42-47, 80-85, 105-110
Resolve ==
    /\ pc = "resolve"
    /\ \E t \in {TryResolve(url)} :
           /\ video_id' = t.video_id
           /\ IF t.raised
              THEN /\ result' = Raised(ExceptResolve(t.exc))
                   /\ pc' = "done"
              ELSE /\ result' = result
                   /\ pc' = "fetch"
    /\ UNCHANGED <<caller, op, url, url_parts, langs_input, languages,
                   provider_calls, captions, idx, timestamps, ui>>

\* lines 49-72
FetchData(resp) ==
    /\ pc = "fetch"
    /\ op = "get_video_data"
    /\ provider_calls' = Append(provider_calls, Call("urlopen", video_id.val, Absent, resp))
    /\ result' = DataOutcome(resp)
    /\ pc' = "done"
    /\ UNCHANGED <<caller, op, url, url_parts, langs_input, languages, video_id,
                   captions, idx, timestamps, ui>>

\* lines 87-97
FetchCaptions(resp) ==
    /\ pc = "fetch"
    /\ op = "get_video_captions"
    /\ provider_calls' = Append(provider_calls,
           Call("get_transcript", video_id.val, CaptionsLanguages(languages), resp))
    /\ result' = CaptionsOutcome(resp)
    /\ pc' = "done"
    /\ UNCHANGED <<caller, op, url, url_parts, langs_input, languages, video_id,
                   captions, idx, timestamps, ui>>

\* lines 113-114
FetchTranscript(resp) ==
    /\ pc = "fetch"
    /\ op = "get_video_timestamps"
    /\ provider_calls' = Append(provider_calls,
           Call("get_transcript", video_id.val, TimestampsLanguages(languages), resp))
    /\ IF resp.kind = "error"
       THEN /\ result' = Raised(ExceptProvider(op, Exc("Exception", resp.cause)))
            /\ pc' = "done"
            /\ UNCHANGED <<captions, idx, timestamps>>
       ELSE /\ captions' = resp.lines
            /\ timestamps' = <<>>
            /\ idx' = 0
            /\ result' = result
            /\ pc' = "loop"
    /\ UNCHANGED <<caller, op, url, url_parts, langs_input, languages, video_id, ui>>

\* the exception one pass of the loop body raises on a line, if any:
\* line["start"] is read first, line['text'] second
LineError(line) ==
    IF ~line.has_start THEN KeyError("start")
    ELSE IF ~line.has_text THEN KeyError("text")
    ELSE Exc("", <<>>)

\* slip: the loop stops at a bad line and returns what it has
ReturnPartial(o, e, partial) == Returned(List(partial))

\* what is raised to the caller when a pass of the loop fails
LoopFailure(o, e, partial) == Raised(ExceptProvider(o, e))

\* lines 115-118: one pass of the for loop
LoopStep ==
    /\ pc = "loop"
    /\ idx < Len(captions)
    /\ \E line \in {captions[idx + 1]} :
           IF LineError(line).type # ""
           THEN /\ result' = LoopFailure(op, LineError(line), timestamps)
                /\ pc' = "done"
                /\ UNCHANGED <<idx, timestamps>>
           ELSE /\ timestamps' = Append(timestamps, FormatTimestamp(line))
                /\ idx' = idx + 1
                /\ UNCHANGED <<result, pc>>
    /\ UNCHANGED <<caller, op, url, url_parts, langs_input, languages, video_id,
                   provider_calls, captions, ui>>

\* line 119
LoopEnd ==
    /\ pc = "loop"
    /\ idx = Len(captions)
    /\ result' = Returned(List(timestamps))
    /\ pc' = "done"
    /\ UNCHANGED <<caller, op, url, url_parts, langs_input, languages, video_id,
                   provider_calls, captions, idx, timestamps>>
    /\ UNCHANGED ui

\* lines 145-149, 157-164, 172-176: the page shows the value or the message
Rendering(o, r) ==
    IF r.kind = "raise" THEN [kind |-> "error", content |-> r.value]
    ELSE IF o = "get_video_data" THEN [kind |-> "json", content |-> r.value]
    ELSE IF o = "get_video_captions"
    THEN [kind |-> "text_area", content |-> <<r.value.val, r.value.val>>]
    ELSE [kind |-> "write", content |-> Join(r.value.val, <<"\n">>)]

Show ==
    /\ pc = "done"
    /\ caller = "ui"
    /\ ui' = Rendering(op, result)
    /\ pc' = "shown"
    /\ UNCHANGED <<caller, op, url, url_parts, langs_input, languages, video_id,
                   provider_calls, captions, idx, timestamps, result>>

\* the call is over: nothing of it is kept for the next one
Rerun ==
    /\ pc = "shown" \/ (pc = "done" /\ caller = "api")
    /\ pc' = "idle"
    /\ caller' = "none"
    /\ op' = "none"
    /\ url' = <<>>
    /\ url_parts' = NoParts
    /\ langs_input' = <<>>
    /\ languages' = None
    /\ video_id' = None
    /\ provider_calls' = <<>>
    /\ captions' = <<>>
    /\ idx' = 0
    /\ timestamps' = <<>>
    /\ result' = Pending
    /\ ui' = NothingShown

Next ==
    \/ \E o \in Ops, p \in OpParts, text \in SeqsUpTo(LangTokens, MaxLangTokens) :
           ButtonClick(o, p, text)
    \/ \E o \in Ops, p \in OpParts, l \in ApiLanguages : ApiCall(o, p, l)
    \/ CheckUrl
    \/ Resolve
    \/ \E resp \in OEmbedResponses : FetchData(resp)
    \/ \E resp \in TranscriptResponses : FetchCaptions(resp)
    \/ \E resp \in TranscriptResponses : FetchTranscript(resp)
    \/ LoopStep
    \/ LoopEnd
    \/ Show
    \/ Rerun

Spec == Init /\ [][Next]_vars

---------------------------------------------------------------------------
(* The resolver's contract, stated on the components of the url text *)

YouTubeHosts == {"youtube.com", "www.youtube.com"}

\* the host a url text names; none without "scheme://"
PartsHost(p) == IF p.scheme = "" THEN "" ELSE Lower(p.host)

\* identifiers: non-empty, free of delimiters and escapes
IdAtoms == {"abc123", "xyz789", "watch", "embed", "v"}

IsV(param) == param[1] = "v"
IsNonBlankV(param) == param[1] = "v" /\ param[2] # ""

\* the url is of one of the four shapes, with identifier id
IsShape(p, id) ==
    \/ PartsHost(p) = "youtu.be" /\ p.segs = <<id>>
    \/ /\ PartsHost(p) \in YouTubeHosts
       /\ \/ p.segs = <<"watch">> /\ SelectSeq(p.params, IsV) = <<<<"v", id>>>>
          \/ p.segs = <<"embed", id>>
          \/ p.segs = <<"v", id>>

\* the same, the /watch identifier being the first v parameter that is not blank
IsShapeFirstV(p, id) ==
    \/ PartsHost(p) = "youtu.be" /\ p.segs = <<id>>
    \/ /\ PartsHost(p) \in YouTubeHosts
       /\ \/ /\ p.segs = <<"watch">>
             /\ SelectSeq(p.params, IsNonBlankV) # <<>>
             /\ SelectSeq(p.params, IsNonBlankV)[1][2] = id
          \/ p.segs = <<"embed", id>>
          \/ p.segs = <<"v", id>>

\* the path begins with /embed/ or /v/
HasIdPrefix(segs) == Len(segs) >= 2 /\ segs[1] \in {"embed", "v"}

\* host and path for which the resolver has no rule, or /watch without a v
IsUnsupported(p) ==
    \/ PartsHost(p) \notin YouTubeHosts \cup {"youtu.be", "["}
    \/ /\ PartsHost(p) \in YouTubeHosts
       /\ \/ p.segs # <<"watch">> /\ ~HasIdPrefix(p.segs)
          \/ p.segs = <<"watch">> /\ SelectSeq(p.params, IsNonBlankV) = <<>>

\* C1 as stated: for every URL of one of the four supported shapes
\* get_youtube_video_id returns exactly the identifier, and for every URL of
\* any other host/path combination it returns None (urls that urlparse
\* rejects left aside).
C1_AsStated ==
    (pc = "resolve_out" /\ PartsHost(url_parts) # "[") =>
        /\ \A id \in IdAtoms : IsShape(url_parts, id) => video_id = Str(<<id>>)
        /\ (\A id \in IdAtoms : ~IsShape(url_parts, id)) => video_id = None

\* C1 as amended: for every URL of one of the four supported shapes, the
\* identifier being non-empty and free of delimiters and escapes and, for
\* /watch, the first non-blank v parameter, get_youtube_video_id returns
\* exactly the identifier; it returns None for every URL that names none of
\* the three hosts, for the hosts youtube.com and www.youtube.com with a path
\* that is neither /watch nor begins with /embed/ or /v/, and for /watch
\* without a non-blank v parameter; for every other URL that urlparse accepts
\* it returns a string, not None.
C1_Resolves ==
    pc = "resolve_out" =>
        /\ \A id \in IdAtoms : IsShapeFirstV(url_parts, id) => video_id = Str(<<id>>)
        /\ IsUnsupported(url_parts) => video_id = None
        /\ (~IsUnsupported(url_parts) /\ PartsHost(url_parts) # "[")
               => video_id.tag = "str"

C1_Witness ==
    /\ pc = "resolve_out"
    /\ url = <<"https", ":", "/", "/", "www.youtube.com", "/", "watch", "?",
               "v", "=", "xyz789", "&", "t", "=", "5">>
    /\ video_id = Str(<<"xyz789">>)

\* the first path segment of the url text
FirstSegment(segs) ==
    IF segs = <<>> \/ segs[1] = "" THEN <<>> ELSE <<segs[1]>>

\* C4: for a URL whose host is youtu.be, get_youtube_video_id returns the
\* first path segment after the leading "/" only, whatever the path.
C4_FirstSegmentOnly ==
    (pc = "resolve_out" /\ PartsHost(url_parts) = "youtu.be")
        => video_id = Str(FirstSegment(url_parts.segs))

---------------------------------------------------------------------------
(* The contracts of the three operations *)

Ended == pc \in {"done", "shown"} /\ result.kind # "pending"

Answered == Ended /\ provider_calls # <<>>

\* C2: a non-empty URL that resolves to no identifier (None or the empty
\* string) makes each operation fail with ValueError("Invalid YouTube URL").
C2_InvalidUrlMessage ==
    (/\ Ended
     /\ url # <<>>
     /\ get_youtube_video_id(url).tag \in {"None", "str"}
     /\ get_youtube_video_id(url).val = <<>>)
        => /\ result.kind = "raise"
           /\ result.type = "ValueError"
           /\ result.value = <<"Invalid YouTube URL">>

\* C3: with the empty string for url each operation fails with
\* ValueError("No URL provided"), whatever the languages argument, and the
\* operation never gets to the resolver or to a provider.
C3_NoUrl ==
    (pc # "idle" /\ url = <<>>) =>
        /\ pc \in {"check_url", "done", "shown"}
        /\ provider_calls = <<>>
        /\ video_id = None
        /\ (pc = "done" => /\ result.kind = "raise"
                           /\ result.type = "ValueError"
                           /\ result.value = <<"No URL provided">>)

C3_Witness ==
    /\ pc = "done"
    /\ op = "get_video_timestamps"
    /\ url = <<>>
    /\ languages = List(<<<<"fa">>, <<"en">>>>)
    /\ result.value = <<"No URL provided">>

IsDigit(c) == \E d \in 1..10 : DigitChars[d] = c
DigitValue(c) == (CHOOSE d \in 1..10 : DigitChars[d] = c) - 1

RECURSIVE NatValue(_)
NatValue(ds) ==
    IF ds = <<>> THEN 0
    ELSE 10 * NatValue(SubSeq(ds, 1, Len(ds) - 1)) + DigitValue(ds[Len(ds)])

\* a number written in decimal without padding
IsDecimal(ds) ==
    /\ ds # <<>>
    /\ \A i \in 1..Len(ds) : IsDigit(ds[i])
    /\ Len(ds) > 1 => ds[1] # "0"

IsSignedDecimal(ds) ==
    IF ds # <<>> /\ ds[1] = "-" THEN IsDecimal(Tail(ds)) ELSE IsDecimal(ds)
SignedValue(ds) ==
    IF ds # <<>> /\ ds[1] = "-" THEN -NatValue(Tail(ds)) ELSE NatValue(ds)

\* s is x (in tenths) truncated to an integer
IsTruncation(s, x) ==
    IF x >= 0 THEN 10 * s <= x /\ x < 10 * s + 10
    ELSE 10 * s - 10 < x /\ x <= 10 * s

\* str reads "<m>:<ss> - <text>" with 60 * m + ss the start truncated
ReadsAs(str, c, line) ==
    /\ c > 1
    /\ Len(str) = c + 5 + Len(line.text)
    /\ IsSignedDecimal(SubSeq(str, 1, c - 1))
    /\ IsDigit(str[c + 1]) /\ IsDigit(str[c + 2])
    /\ 10 * DigitValue(str[c + 1]) + DigitValue(str[c + 2]) \in 0..59
    /\ IsTruncation(60 * SignedValue(SubSeq(str, 1, c - 1))
                    + 10 * DigitValue(str[c + 1]) + DigitValue(str[c + 2]),
                    line.start)
    /\ SubSeq(str, c + 3, c + 5) = <<" ", "-", " ">>
    /\ SubSeq(str, c + 6, Len(str)) = line.text

WellFormed(line) == line.has_start /\ line.has_text

\* C5: when the transcript provider returns the lines L, get_video_timestamps
\* returns a sequence of the length and order of L, empty when L is, whose
\* i-th element is "<m>:<ss> - <text_i>": the start truncated to whole
\* seconds, split into unpadded minutes and two-digit seconds 00..59.
C5_Timestamps ==
    (/\ Answered
     /\ op = "get_video_timestamps"
     /\ provider_calls[1].answer.kind = "ok"
     /\ \A i \in 1..Len(captions) : WellFormed(captions[i]))
        => /\ captions = provider_calls[1].answer.lines
           /\ result.kind = "return"
           /\ result.value.tag = "list"
           /\ Len(result.value.val) = Len(captions)
           /\ \A i \in 1..Len(captions) :
                  ReadsAs(result.value.val[i],
                          Find(result.value.val[i], {":"}), captions[i])

C5_Witness ==
    /\ pc = "done"
    /\ op = "get_video_timestamps"
    /\ captions = <<Line(758, <<"hi">>), Line(36059, <<"there">>)>>
    /\ result = Returned(List(<<
           <<"1", ":", "1", "5", " ", "-", " ", "hi">>,
           <<"6", "0", ":", "0", "5", " ", "-", " ", "there">>>>))

\* C6: get_video_captions returns the texts of the provider's lines in the
\* provider's order with exactly one space between consecutive texts, and
\* the literal "No captions found for video" when the provider returns none.
C6_Captions ==
    (/\ Answered
     /\ op = "get_video_captions"
     /\ provider_calls[1].answer.kind = "ok"
     /\ \A i \in 1..Len(provider_calls[1].answer.lines) :
            provider_calls[1].answer.lines[i].has_text)
        => /\ result.kind = "return"
           /\ result.value.tag = "str"
           /\ IF provider_calls[1].answer.lines = <<>>
              THEN result.value.val = <<"No captions found for video">>
              ELSE /\ Len(result.value.val)
                          = 2 * Len(provider_calls[1].answer.lines) - 1
                   /\ \A i \in 1..Len(provider_calls[1].answer.lines) :
                          result.value.val[2 * i - 1]
                              = provider_calls[1].answer.lines[i].text[1]
                   /\ \A i \in 1..(Len(provider_calls[1].answer.lines) - 1) :
                          result.value.val[2 * i] = " "

C6_Witness ==
    /\ pc = "done"
    /\ op = "get_video_captions"
    /\ Len(provider_calls) = 1
    /\ provider_calls[1].answer.lines
           = <<Line(758, <<"hi">>), Line(36059, <<"there">>)>>
    /\ result = Returned(Str(<<"hi", " ", "there">>))

\* C7: an execution issues at most one provider call, none when it fails
\* with a ValueError, never one with an absent or empty identifier, and no
\* second one after a provider failure.
C7_AtMostOneCall ==
    /\ Len(provider_calls) <= 1
    /\ (result.kind = "raise" /\ result.type = "ValueError") => provider_calls = <<>>
    /\ \A i \in 1..Len(provider_calls) :
           /\ provider_calls[i].video_id # <<>>
           /\ Str(provider_calls[i].video_id) = video_id

C7_Witness ==
    /\ pc = "done"
    /\ Len(provider_calls) = 1
    /\ provider_calls[1].answer.kind = "error"
    /\ result.kind = "raise"
    /\ result.type = "Exception"

\* the error text of whatever fails after the call, <<>> when nothing does
FailureText ==
    IF provider_calls[1].answer.kind = "error" THEN provider_calls[1].answer.cause
    ELSE IF op = "get_video_data"
    THEN IF provider_calls[1].answer.body.json = "object" THEN <<>>
         ELSE IF provider_calls[1].answer.body.json \in {"array", "null"}
         THEN <<"attribute">> ELSE <<"decoding">>
    ELSE IF \E i \in 1..Len(provider_calls[1].answer.lines) :
                \/ ~provider_calls[1].answer.lines[i].has_text
                \/ /\ op = "get_video_timestamps"
                   /\ ~provider_calls[1].answer.lines[i].has_start
    THEN <<"'", "key", "'">>
    ELSE <<>>

StagePrefix ==
    IF op = "get_video_data" THEN "Error getting video data: "
    ELSE IF op = "get_video_captions" THEN "Error getting captions for video: "
    ELSE "Error generating timestamps: "

\* C8: any failure after identifier resolution, a malformed caption line met
\* part-way through the loop included, ends the operation with an Exception
\* whose message is the operation's prefix followed by the error's text; what
\* was built before the failure is never returned.
C8_Wrapped ==
    Answered =>
        /\ (FailureText # <<>>) <=> (result.kind = "raise")
        /\ result.kind = "raise" =>
               /\ result.type = "Exception"
               /\ Len(result.value) > 1
               /\ result.value[1] = StagePrefix
               /\ provider_calls[1].answer.kind = "error"
                      => Tail(result.value) = provider_calls[1].answer.cause
               /\ (/\ provider_calls[1].answer.kind = "ok"
                   /\ op # "get_video_data")
                      => /\ Len(result.value) = 4
                         /\ result.value[2] = "'" /\ result.value[4] = "'"
                         /\ result.value[3] \in {"start", "text"}

C8_Witness ==
    /\ pc = "done"
    /\ op = "get_video_timestamps"
    /\ Len(captions) = 2
    /\ WellFormed(captions[1])
    /\ ~captions[2].has_text
    /\ timestamps # <<>>
    /\ result.kind = "raise"
    /\ result.value = <<"Error generating timestamps: ", "'", "text", "'">>

OnlyBlanks(text) == \A i \in 1..Len(text) : text[i] \in {",", " "}

HasPreference(l) == l.tag = "list" /\ Len(l.val) > 0

\* C9: the transcript provider is given the caller's list when that is not
\* empty; otherwise ["en"] by get_video_timestamps and no languages argument
\* by get_video_captions.  What the page parses from a languages text whose
\* entries are all empty is an empty list, hence no preference.
C9_Languages ==
    /\ \A i \in 1..Len(provider_calls) :
           provider_calls[i].api = "get_transcript" =>
               provider_calls[i].languages =
                   IF HasPreference(languages) THEN languages
                   ELSE IF op = "get_video_timestamps" THEN List(<<<<"en">>>>)
                   ELSE Absent
    /\ (caller = "ui" /\ langs_input # <<>> /\ OnlyBlanks(langs_input))
           => languages = List(<<>>)
    /\ (caller = "ui" /\ langs_input = <<>>) => languages = None

C9_Witness ==
    /\ caller = "ui"
    /\ langs_input = <<" ", ",">>
    /\ op = "get_video_timestamps"
    /\ Len(provider_calls) = 1
    /\ provider_calls[1].languages = List(<<<<"en">>>>)

\* the record holds the ten keys, each with the provider's value or null
IsProjection(record, fields) ==
    /\ DOMAIN record = Whitelist
    /\ \A k \in Whitelist :
           record[k] = IF k \in DOMAIN fields THEN fields[k] ELSE None

\* C10 as stated: whatever the shape of the body of a successful GET,
\* get_video_data succeeds and returns a record with exactly the ten
\* whitelisted keys, each the provider's value or null, all else dropped.
C10_AsStated ==
    (/\ Answered
     /\ op = "get_video_data"
     /\ provider_calls[1].answer.kind = "ok")
        => /\ result.kind = "return"
           /\ IsProjection(result.value, provider_calls[1].answer.body.fields)

\* C10 as amended: when the body of a successful GET is a JSON object,
\* get_video_data succeeds and returns a record with exactly the ten
\* whitelisted keys, each the provider's value or null, all else dropped;
\* when the body is anything else (undecodable, not JSON, a JSON array or
\* null) it fails with an Exception "Error getting video data: <cause>".
C10_Projection ==
    (/\ Answered
     /\ op = "get_video_data"
     /\ provider_calls[1].answer.kind = "ok")
        => IF provider_calls[1].answer.body.json = "object"
           THEN /\ result.kind = "return"
                /\ IsProjection(result.value, provider_calls[1].answer.body.fields)
           ELSE /\ result.kind = "raise"
                /\ result.type = "Exception"
                /\ result.value[1] = "Error getting video data: "

C10_Witness ==
    /\ pc = "done"
    /\ op = "get_video_data"
    /\ Len(provider_calls) = 1
    /\ DOMAIN provider_calls[1].answer.body.fields = {"title", "html"}
    /\ result.kind = "return"
    /\ result.value["title"] = ProviderValue("title")
    /\ result.value["thumbnail_url"] = None
    /\ "html" \notin DOMAIN result.value

====
